---- MODULE Spec2Model ----
(***************************************************************************)
(* The mesos-dns supervisor (src/app.go): the lifecycle gate made of the   *)
(* ready and done channels, plugin launching during initialize, the        *)
(* registration surface, the Config accessor, and run with its DNS         *)
(* responder, leader watcher, reloader and select loop.                    *)
(*                                                                         *)
(* A panic is modelled as the faulting call ending with the panic's        *)
(* message as its result; deferred calls of the panicking function run.    *)
(* Collaborators outside app.go (the resolver, the plugins, the caller's   *)
(* error handler) are the environment: their inputs are drawn with \E.     *)
(***************************************************************************)
EXTENDS Integers, Sequences, FiniteSets, TLC

\* ------------------------------------------------------------------ bounds

MaxPlugins == 3        \* longest plugin-settings list of a configuration
MaxRegs == 2           \* registrations (hooks, filters, web services) kept
MaxErrs == 2           \* errors the DNS responder and the leader watcher send
MaxLeaderEvents == 2   \* leadership events the consensus watcher sends
MaxTimerFires == 2     \* expiries of the reload timers, over all reloaders
MaxLog == 3            \* error handler calls recorded

\* ------------------------------------------------------------- value sets

Nil == "nil"

PluginNames == {"", "bad", "p1", "p2"}   \* "" and an unregistered name among them
KnownPlugins == {"p1", "p2"}             \* names plugins.New resolves
Filters == {"f1", "f2"}
Reloaders == {"ld1"}
WebServices == {"ws1"}

RECURSIVE SeqsUpTo(_, _)
SeqsUpTo(S, n) ==
    IF n = 0 THEN {<<>>}
    ELSE LET shorter == SeqsUpTo(S, n - 1)
         IN  shorter \cup {Append(s, x) : s \in {t \in shorter : Len(t) = n - 1}, x \in S}

PluginLists == SeqsUpTo(PluginNames, MaxPlugins)
MasterLists == {<<"m1">>, <<"m1", "m2">>}
ResolverLists == {<<"8.8.8.8">>}

\* What records.SetConfig(*cjson) may load, as values.
InitConfigs ==
    [HttpOn : BOOLEAN, DnsOn : {TRUE}, Zk : {""},
     Plugins : PluginLists, Masters : {<<"m1">>}, Resolvers : ResolverLists]

SnapConfigs ==
    [HttpOn : BOOLEAN, DnsOn : {TRUE}, Zk : {""},
     Plugins : {<<>>, <<"p1">>}, Masters : MasterLists, Resolvers : ResolverLists]

RunConfigs ==
    [HttpOn : {FALSE}, DnsOn : BOOLEAN, Zk : {"", "zk://zk1/mesos"},
     Plugins : {<<"p1">>}, Masters : {<<"m1">>}, Resolvers : ResolverLists]

\* One that reports errors and one that does not, beside the built-in one.
ForwardedPlugins == <<"p1", "p2">>

FilterConfigs ==
    [HttpOn : {FALSE}, DnsOn : {TRUE}, Zk : {""},
     Plugins : {<<"p1">>}, Masters : {<<"m1">>}, Resolvers : ResolverLists]

PluginConfigs ==
    [HttpOn : {TRUE}, DnsOn : {TRUE}, Zk : {""},
     Plugins : {ForwardedPlugins}, Masters : {<<"m1">>}, Resolvers : ResolverLists]

ReloadConfigs ==
    [HttpOn : {FALSE}, DnsOn : {TRUE}, Zk : {"", "zk://zk1/mesos"},
     Plugins : {<<"p1">>}, Masters : {<<"m1">>}, Resolvers : ResolverLists]

\* The error values of the collaborators: each one sent is a value of its own.
ErrValue(k) == "error " \o ToString(k)

\* Backing arrays of the slices: the supervisor's own and a snapshot's.
Addrs == {"c.Masters", "c.Resolvers", "c.Plugins", "s.Masters", "s.Resolvers"}

NoConfig == [HttpOn |-> FALSE, DnsOn |-> FALSE, Zk |-> "",
             Plugins |-> Nil, Masters |-> Nil, Resolvers |-> Nil]

RunIds == {"run1", "run2"}   \* the calls of run that callers make, in order

\* A channel: nil (never ready), or made with a capacity; buf holds what was
\* sent and not yet received.
NilChan == [nil |-> TRUE, cap |-> 0, buf |-> <<>>, closed |-> FALSE]
MakeChan(n) == [nil |-> FALSE, cap |-> n, buf |-> <<>>, closed |-> FALSE]
Unit == "struct{}{}"

\* --------------------------------------------------------------- variables

VARIABLES
    config,      \* c.config: scalar fields, and the slices as heap addresses
    heap,        \* backing arrays of slices, by address
    ready,       \* c.ready is closed
    done,        \* c.done is closed
    closeCalls,  \* executions of close(c.ready) and close(c.done)
    filters,     \* c.filters
    hooks,       \* resolver preload/postload hooks and restful web services
    initPc,      \* where newApp's initialize call stands
    idx,         \* position of initialize's range loop in config.Plugins
    started,     \* plugin names handed to launchPlugin, in order
    lastCall,    \* latest call of the registration surface or of initialize
    snap,        \* the *records.Config a collaborator holds from Config(), if any
    firstView,   \* the value the first Config() call returned, if any
    pluginErr,   \* per launched plugin: the error stream its Start returned
    fwdPc,       \* per launched plugin: its forwarder: none, wait, handler, stopped
    runPc,       \* per call of run: idle, select, handler or ended
    runResult,   \* per call of run: the panic that ended it, "" if none
    dnsErr,      \* per call of run: its dnsErr channel
    zkErr,       \* per call of run: its zkErr channel
    newLeader,   \* per call of run: its newLeader channel
    reloadSignal, \* per call of run: its reloader's reloadSignal channel
    workerPc,    \* per call of run: its reload worker: none, wait or reload
    timer,       \* per call of run: its reloadTimer: none, armed or idle
    reloading,   \* calls of c.resolver.Reload in progress
    launches,    \* calls of LaunchDNS, LaunchZK and launchReloader, and the
                 \* filter chain the latest LaunchDNS was given
    errLog,      \* the calls of c.errHandler, in order
    sentLog,     \* the errors the collaborators sent, in order
    stats        \* per call of run: events counted (history)

plugVars == <<pluginErr, fwdPc>>

coreVars == <<config, heap, ready, done, closeCalls, filters, hooks,
              initPc, idx, started, lastCall, snap, firstView>>

lifeVars == <<coreVars, plugVars>>

runVars == <<runPc, runResult, dnsErr, zkErr, newLeader, reloadSignal,
             workerPc, timer, reloading, launches, errLog, sentLog, stats>>

vars == <<lifeVars, runVars>>

\* ------------------------------------------------------------- app struct

\* newApp: both channels made open, nothing loaded; then c.initialize().
Init ==
    /\ config = NoConfig
    /\ heap = [a \in Addrs |-> <<>>]
    /\ ready = FALSE
    /\ done = FALSE
    /\ closeCalls = [ready |-> 0, done |-> 0]
    /\ filters = <<>>
    /\ hooks = <<>>
    /\ initPc = "new"
    /\ idx = 0
    /\ started = <<>>
    /\ lastCall = [op |-> "none", arg |-> Nil, atReady |-> FALSE, result |-> "ok"]
    /\ snap = <<>>
    /\ firstView = <<>>
    /\ pluginErr = <<>>
    /\ fwdPc = <<>>
    /\ runPc = [r \in RunIds |-> "idle"]
    /\ runResult = [r \in RunIds |-> ""]
    /\ dnsErr = [r \in RunIds |-> NilChan]
    /\ zkErr = [r \in RunIds |-> NilChan]
    /\ newLeader = [r \in RunIds |-> NilChan]
    /\ reloadSignal = [r \in RunIds |-> NilChan]
    /\ workerPc = [r \in RunIds |-> "none"]
    /\ timer = [r \in RunIds |-> "none"]
    /\ reloading = 0
    /\ launches = [dns |-> 0, zk |-> 0, reloader |-> 0, chain |-> <<>>]
    /\ errLog = <<>>
    /\ sentLog = <<>>
    /\ stats = [r \in RunIds |-> [leader |-> 0, timer |-> 0, execs |-> 0, burst |-> 0]]

\* A slice read through its backing array; a nil slice is empty.
Deref(h, a) == IF a = Nil THEN <<>> ELSE h[a]

\* `select { case <-ch: A  default: B }` on a channel that only ever gets
\* closed: the case is taken exactly when the channel is closed.
Closed(ch) == ch

Call(op, arg, result) ==
    [op |-> op, arg |-> arg, atReady |-> ready, result |-> result]

NRegs == Len(hooks) + Len(filters)

\* ---------------------------------------------------- registration surface

OnPreload(r) ==
    /\ initPc # "new"
    /\ IF Closed(ready)
       THEN /\ lastCall' = Call("OnPreload", r, "cannot OnPreload after initialization has completed")
            /\ UNCHANGED hooks
       ELSE /\ NRegs < MaxRegs
            /\ hooks' = Append(hooks, <<"preload", r>>)
            /\ lastCall' = Call("OnPreload", r, "ok")
    /\ UNCHANGED <<config, heap, ready, done, closeCalls, filters,
                   initPc, idx, started, snap, firstView, plugVars, runVars>>

OnPostload(r) ==
    /\ initPc # "new"
    /\ IF Closed(ready)
       THEN /\ lastCall' = Call("OnPostload", r, "cannot OnPostload after initialization has completed")
            /\ UNCHANGED hooks
       ELSE /\ NRegs < MaxRegs
            /\ hooks' = Append(hooks, <<"postload", r>>)
            /\ lastCall' = Call("OnPostload", r, "ok")
    /\ UNCHANGED <<config, heap, ready, done, closeCalls, filters,
                   initPc, idx, started, snap, firstView, plugVars, runVars>>

\* A variant that tests the filter before the gate: a nil filter after Ready
\* returns quietly.
AddFilter_NilFirst(f) ==
    /\ initPc # "new"
    /\ IF f = Nil
       THEN /\ lastCall' = Call("AddFilter", f, "ok")
            /\ UNCHANGED filters
       ELSE IF Closed(ready)
       THEN /\ lastCall' = Call("AddFilter", f, "cannot AddFilter after initialization has completed")
            /\ UNCHANGED filters
       ELSE /\ NRegs < MaxRegs
            /\ filters' = Append(filters, f)
            /\ lastCall' = Call("AddFilter", f, "ok")
    /\ UNCHANGED <<config, heap, ready, done, closeCalls, hooks,
                   initPc, idx, started, snap, firstView, plugVars, runVars>>

\* A variant that puts a new filter in front of the chain.
AddFilter_Prepend(f) ==
    /\ initPc # "new"
    /\ IF Closed(ready)
       THEN /\ lastCall' = Call("AddFilter", f, "cannot AddFilter after initialization has completed")
            /\ UNCHANGED filters
       ELSE /\ f # Nil => NRegs < MaxRegs
            /\ filters' = IF f # Nil THEN <<f>> \o filters ELSE filters
            /\ lastCall' = Call("AddFilter", f, "ok")
    /\ UNCHANGED <<config, heap, ready, done, closeCalls, hooks,
                   initPc, idx, started, snap, firstView, plugVars, runVars>>

AddFilter(f) ==
    /\ initPc # "new"
    /\ IF Closed(ready)
       THEN /\ lastCall' = Call("AddFilter", f, "cannot AddFilter after initialization has completed")
            /\ UNCHANGED filters
       ELSE /\ f # Nil => NRegs < MaxRegs
            /\ filters' = IF f # Nil THEN Append(filters, f) ELSE filters
            /\ lastCall' = Call("AddFilter", f, "ok")
    /\ UNCHANGED <<config, heap, ready, done, closeCalls, hooks,
                   initPc, idx, started, snap, firstView, plugVars, runVars>>

RegisterWS(ws) ==
    /\ initPc # "new"
    /\ IF Closed(ready)
       THEN /\ lastCall' = Call("RegisterWS", ws, "cannot RegisterWS after initialization has completed")
            /\ UNCHANGED hooks
       ELSE /\ NRegs < MaxRegs
            /\ hooks' = Append(hooks, <<"ws", ws>>)
            /\ lastCall' = Call("RegisterWS", ws, "ok")
    /\ UNCHANGED <<config, heap, ready, done, closeCalls, filters,
                   initPc, idx, started, snap, firstView, plugVars, runVars>>

Register ==
    \/ \E r \in Reloaders : OnPreload(r)
    \/ \E r \in Reloaders : OnPostload(r)
    \/ \E f \in Filters \cup {Nil} : AddFilter(f)
    \/ \E ws \in WebServices : RegisterWS(ws)

\* ------------------------------------------------------------------ Config

\* A variant that copies the struct only: the lists keep their arrays.
Config_Shallow ==
    <<[config EXCEPT !.Plugins = Nil], heap>>

\* The accessor's result: the struct copied, Plugins nil, Masters and
\* Resolvers copied into fresh arrays.  <<the snapshot, the heap after>>.

Config ==
    LET cfg == [config EXCEPT !.Plugins = Nil,
                              !.Masters = "s.Masters",
                              !.Resolvers = "s.Resolvers"]
    IN  <<cfg, [heap EXCEPT !["s.Masters"] = Deref(heap, config.Masters),
                            !["s.Resolvers"] = Deref(heap, config.Resolvers)]>>

\* A configuration as a value: every slice read through the heap.
View(cfg, h) ==
    [cfg EXCEPT !.Plugins = Deref(h, cfg.Plugins),
                !.Masters = Deref(h, cfg.Masters),
                !.Resolvers = Deref(h, cfg.Resolvers)]

ConfigCall ==
    /\ initPc # "new"
    /\ LET res == Config
       IN  /\ snap' = <<res[1]>>
           /\ heap' = res[2]
           /\ firstView' = IF firstView = <<>> THEN <<View(res[1], res[2])>> ELSE firstView
    /\ UNCHANGED <<config, ready, done, closeCalls, filters, hooks,
                   initPc, idx, started, lastCall, plugVars, runVars>>

\* The holder of a snapshot writes into it: an element of a list, or a field.
MutateSnapshot ==
    /\ snap # <<>>
    /\ \/ /\ \E fld \in {"Masters", "Resolvers"} :
               /\ snap[1][fld] # Nil
               /\ \E i \in 1..Len(heap[snap[1][fld]]) :
                    heap' = [heap EXCEPT ![snap[1][fld]][i] = "changed"]
          /\ UNCHANGED snap
       \/ /\ snap' = <<[snap[1] EXCEPT !.Plugins = "s.Masters"]>>
          /\ UNCHANGED heap
       \/ /\ snap' = <<[snap[1] EXCEPT !.HttpOn = ~snap[1].HttpOn]>>
          /\ UNCHANGED heap
    /\ UNCHANGED <<config, ready, done, closeCalls, filters, hooks,
                   initPc, idx, started, lastCall, firstView, plugVars, runVars>>

\* -------------------------------------------------------------- initialize

\* close(ch): a second close is the runtime's "close of closed channel" panic
\* and leaves the channel closed.
CloseReady ==
    /\ closeCalls' = [closeCalls EXCEPT !.ready = @ + 1]
    /\ ready' = TRUE

\* plugins.New: an unregistered name is an error.
Resolves(name) == name \in KnownPlugins

\* plugin.Start(pctx): the plugins that report errors return a stream, the
\* others return nil.
StreamingPlugins == {"HTTP server", "p1"}

Start(name) == IF name \in StreamingPlugins THEN MakeChan(1) ELSE NilChan

\* launchPlugin: the plugin is started; when Start returned a stream, a
\* forwarder goroutine ranges over it.
launchPlugin(name) ==
    /\ started' = Append(started, name)
    /\ pluginErr' = Append(pluginErr, Start(name))
    /\ fwdPc' = Append(fwdPc, IF Start(name).nil THEN "none" ELSE "wait")

\* The entry of initialize, up to the configuration being loaded; a call on
\* an initialized app panics.
initialize(cfgs) ==
    IF Closed(ready)
    THEN /\ initPc = "returned"
         /\ lastCall' = Call("initialize", Nil, "app already initialized")
         /\ UNCHANGED <<config, heap, ready, done, closeCalls, filters, hooks,
                        initPc, idx, started, snap, firstView, plugVars, runVars>>
    ELSE /\ initPc = "new"
         /\ \E c \in cfgs :
               /\ config' = [c EXCEPT !.Plugins = "c.Plugins",
                                      !.Masters = "c.Masters",
                                      !.Resolvers = "c.Resolvers"]
               /\ heap' = [heap EXCEPT !["c.Plugins"] = c.Plugins,
                                       !["c.Masters"] = c.Masters,
                                       !["c.Resolvers"] = c.Resolvers]
         /\ initPc' = "loaded"
         /\ lastCall' = Call("initialize", Nil, "ok")
         /\ UNCHANGED <<ready, done, closeCalls, filters, hooks, idx, started,
                        snap, firstView, plugVars, runVars>>

\* The built-in plugin.
initializeBuiltin ==
    /\ initPc = "loaded"
    /\ IF config.HttpOn THEN launchPlugin("HTTP server") ELSE UNCHANGED <<started, plugVars>>
    /\ initPc' = "plugins"
    /\ idx' = 1
    /\ UNCHANGED <<config, heap, ready, done, closeCalls, filters, hooks,
                   lastCall, snap, firstView, runVars>>

\* A variant whose loop stops at the first entry it cannot start.
initializePlugin_Break ==
    /\ initPc = "plugins"
    /\ idx <= Len(Deref(heap, config.Plugins))
    /\ LET pluginName == Deref(heap, config.Plugins)[idx]
       IN  IF pluginName = "" \/ ~Resolves(pluginName)
           THEN /\ UNCHANGED <<started, plugVars>>
                /\ idx' = Len(Deref(heap, config.Plugins)) + 1
           ELSE /\ launchPlugin(pluginName)
                /\ idx' = idx + 1
    /\ UNCHANGED <<config, heap, ready, done, closeCalls, filters, hooks,
                   initPc, lastCall, snap, firstView, runVars>>

\* One iteration of the range loop over c.config.Plugins.
initializePlugin ==
    /\ initPc = "plugins"
    /\ idx <= Len(Deref(heap, config.Plugins))
    /\ LET pluginName == Deref(heap, config.Plugins)[idx]
       IN  IF pluginName = "" \/ ~Resolves(pluginName)
           THEN UNCHANGED <<started, plugVars>>
           ELSE launchPlugin(pluginName)
    /\ idx' = idx + 1
    /\ UNCHANGED <<config, heap, ready, done, closeCalls, filters, hooks,
                   initPc, lastCall, snap, firstView, runVars>>

\* The loop is over: the deferred close(c.ready) runs.
initializeReturn ==
    /\ initPc = "plugins"
    /\ idx > Len(Deref(heap, config.Plugins))
    /\ CloseReady
    /\ initPc' = "returned"
    /\ UNCHANGED <<config, heap, done, filters, hooks, idx, started,
                   lastCall, snap, firstView, plugVars, runVars>>


\* ---------------------------------------------------------------- channels

\* A receive is ready on a channel that holds a value or is closed; never on
\* a nil channel.
CanRecv(ch) == ~ch.nil /\ (ch.buf # <<>> \/ ch.closed)

\* The value a ready receive yields: the oldest one sent, or the zero value
\* (a nil error) from a closed and drained channel.
RecvVal(ch) == IF ch.buf # <<>> THEN Head(ch.buf) ELSE Nil

RecvRest(ch) == IF ch.buf # <<>> THEN [ch EXCEPT !.buf = Tail(@)] ELSE ch

CanSend(ch) == ~ch.nil /\ ~ch.closed /\ Len(ch.buf) < ch.cap

Send(ch, v) == [ch EXCEPT !.buf = Append(@, v)]

\* -------------------------------------------------------- plugin forwarders

\* The forwarder of the i-th launched plugin, as it appears in the logs.
PluginId(i) == "plugin " \o ToString(i)

\* A variant whose forwarders all read the name of the plugin launched last.
forwardErr_SharedName(i) ==
    /\ i \in DOMAIN fwdPc
    /\ fwdPc[i] = "wait"
    /\ pluginErr[i].buf # <<>>
    /\ Len(errLog) < MaxLog
    /\ pluginErr' = [pluginErr EXCEPT ![i] = RecvRest(@)]
    /\ errLog' = Append(errLog, [by |-> PluginId(i), tag |-> started[Len(started)],
                                 err |-> RecvVal(pluginErr[i])])
    /\ fwdPc' = [fwdPc EXCEPT ![i] = "handler"]
    /\ UNCHANGED <<coreVars, runPc, runResult, dnsErr, zkErr, newLeader, reloadSignal,
                   workerPc, timer, reloading, launches, sentLog, stats>>

\* for err := range errCh { c.errHandler(pluginName, err) }: the forwarder
\* receives an error and enters the handler, in its own goroutine.
forwardErr(i) ==
    /\ i \in DOMAIN fwdPc
    /\ fwdPc[i] = "wait"
    /\ pluginErr[i].buf # <<>>
    /\ Len(errLog) < MaxLog
    /\ pluginErr' = [pluginErr EXCEPT ![i] = RecvRest(@)]
    /\ errLog' = Append(errLog, [by |-> PluginId(i), tag |-> started[i],
                                 err |-> RecvVal(pluginErr[i])])
    /\ fwdPc' = [fwdPc EXCEPT ![i] = "handler"]
    /\ UNCHANGED <<coreVars, runPc, runResult, dnsErr, zkErr, newLeader, reloadSignal,
                   workerPc, timer, reloading, launches, sentLog, stats>>

\* The handler returns to the forwarder, which ranges again.
forwardHandled(i) ==
    /\ i \in DOMAIN fwdPc
    /\ fwdPc[i] = "handler"
    /\ fwdPc' = [fwdPc EXCEPT ![i] = "wait"]
    /\ UNCHANGED <<coreVars, pluginErr, runVars>>

\* The stream is closed and drained: the range loop and the goroutine end.
forwardEnd(i) ==
    /\ i \in DOMAIN fwdPc
    /\ fwdPc[i] = "wait"
    /\ pluginErr[i].closed
    /\ pluginErr[i].buf = <<>>
    /\ fwdPc' = [fwdPc EXCEPT ![i] = "stopped"]
    /\ UNCHANGED <<coreVars, pluginErr, runVars>>

\* ---------------------------------------------------------------- reloader

\* reloadSignal := make(chan struct{}, 1)
launchReloader_Cap2 == MakeChan(2)

launchReloader == MakeChan(1)

\* A variant that sends without the default case: a request is queued even
\* when one is pending.
tryReload_Unguarded(ch) == Send(ch, Unit)

\* tryReload: the non-blocking send; a full queue drops the request.
tryReload(ch) == IF CanSend(ch) THEN Send(ch, Unit) ELSE ch

TimerFires == stats["run1"].timer + stats["run2"].timer

\* reloadTimer expires: time.AfterFunc runs tryReload in its own goroutine.
TimerFire(r) ==
    /\ timer[r] = "armed"
    /\ TimerFires < MaxTimerFires
    /\ timer' = [timer EXCEPT ![r] = "idle"]
    /\ reloadSignal' = [reloadSignal EXCEPT ![r] = tryReload(@)]
    /\ stats' = [stats EXCEPT ![r].timer = @ + 1, ![r].burst = @ + 1]
    /\ UNCHANGED <<lifeVars, runPc, runResult, dnsErr, zkErr, newLeader,
                   workerPc, reloading, launches, errLog, sentLog>>

\* The worker's range loop receives a request and enters c.resolver.Reload().
WorkerDequeue(r) ==
    /\ workerPc[r] = "wait"
    /\ CanRecv(reloadSignal[r])
    /\ reloadSignal' = [reloadSignal EXCEPT ![r] = RecvRest(@)]
    /\ workerPc' = [workerPc EXCEPT ![r] = "reload"]
    /\ reloading' = reloading + 1
    /\ stats' = [stats EXCEPT ![r].execs = @ + 1, ![r].burst = 0]
    /\ UNCHANGED <<lifeVars, runPc, runResult, dnsErr, zkErr, newLeader,
                   timer, launches, errLog, sentLog>>

\* A variant that does not reset the timer after a reload.
WorkerReloaded_NoReset(r) ==
    /\ workerPc[r] = "reload"
    /\ reloading' = reloading - 1
    /\ workerPc' = [workerPc EXCEPT ![r] = "wait"]
    /\ UNCHANGED <<lifeVars, runPc, runResult, dnsErr, zkErr, newLeader,
                   reloadSignal, timer, launches, errLog, sentLog, stats>>

\* Reload returns; the worker resets the timer and ranges again.
WorkerReloaded(r) ==
    /\ workerPc[r] = "reload"
    /\ reloading' = reloading - 1
    /\ timer' = [timer EXCEPT ![r] = "armed"]
    /\ workerPc' = [workerPc EXCEPT ![r] = "wait"]
    /\ UNCHANGED <<lifeVars, runPc, runResult, dnsErr, zkErr, newLeader,
                   reloadSignal, launches, errLog, sentLog, stats>>

\* --------------------------------------------------------------------- run

\* A variant that launches the server whatever the toggle says.
launchServer_Always(enabled) == MakeChan(1)

\* launchServer: the DNS responder's error stream, or a nil channel.
launchServer(enabled) == IF enabled THEN MakeChan(1) ELSE NilChan

\* A variant that makes the static channel and sends nothing on it.
beginLeaderWatch_NoSend ==
    IF config.Zk # ""
    THEN <<MakeChan(1), MakeChan(1)>>
    ELSE <<MakeChan(1), NilChan>>

\* beginLeaderWatch: <<newLeader, zkErr>>.  Without an endpoint, a buffered
\* channel that already holds the one event, and a nil error channel.
beginLeaderWatch ==
    IF config.Zk # ""
    THEN <<MakeChan(1), MakeChan(1)>>
    ELSE <<Send(MakeChan(1), Unit), NilChan>>

\* close(c.done), deferred by run.
CloseDone ==
    /\ closeCalls' = [closeCalls EXCEPT !.done = @ + 1]
    /\ done' = TRUE

\* A variant that defers close(c.done) before the gate: a refused call
\* executes the close as it unwinds.
run_DeferFirst(r) ==
    /\ runPc[r] = "idle"
    /\ initPc # "new"
    /\ \A q \in RunIds : (q = "run1" /\ r = "run2") => runPc[q] # "idle"
    /\ IF ~Closed(ready)
       THEN /\ runPc' = [runPc EXCEPT ![r] = "ended"]
            /\ runResult' = [runResult EXCEPT ![r] = "cannot run, not yet initialized"]
            /\ CloseDone
            /\ UNCHANGED <<dnsErr, zkErr, newLeader, reloadSignal, workerPc,
                           timer, launches>>
       ELSE IF Closed(done)
       THEN /\ runPc' = [runPc EXCEPT ![r] = "ended"]
            /\ runResult' = [runResult EXCEPT ![r] = "run already completed"]
            /\ CloseDone
            /\ UNCHANGED <<dnsErr, zkErr, newLeader, reloadSignal, workerPc,
                           timer, launches>>
       ELSE /\ runPc' = [runPc EXCEPT ![r] = "select"]
            /\ dnsErr' = [dnsErr EXCEPT ![r] = launchServer(config.DnsOn)]
            /\ newLeader' = [newLeader EXCEPT ![r] = beginLeaderWatch[1]]
            /\ zkErr' = [zkErr EXCEPT ![r] = beginLeaderWatch[2]]
            /\ reloadSignal' = [reloadSignal EXCEPT ![r] = launchReloader]
            /\ workerPc' = [workerPc EXCEPT ![r] = "wait"]
            /\ timer' = [timer EXCEPT ![r] = "armed"]
            /\ launches' = [dns |-> launches.dns
                                       + (IF launchServer(config.DnsOn).nil THEN 0 ELSE 1),
                            zk |-> launches.zk + (IF config.Zk # "" THEN 1 ELSE 0),
                            reloader |-> launches.reloader + 1,
                            chain |-> IF launchServer(config.DnsOn).nil
                                      THEN launches.chain ELSE filters]
            /\ UNCHANGED <<runResult, done, closeCalls>>
    /\ UNCHANGED <<config, heap, ready, filters, hooks, initPc, idx, started,
                   lastCall, snap, firstView, plugVars, reloading, errLog, sentLog,
                   stats>>

\* The entry of run up to its loop: the gate, then the three launches.
run(r) ==
    /\ runPc[r] = "idle"
    /\ initPc # "new"
    /\ \A q \in RunIds : (q = "run1" /\ r = "run2") => runPc[q] # "idle"
    /\ IF ~Closed(ready)
       THEN /\ runPc' = [runPc EXCEPT ![r] = "ended"]
            /\ runResult' = [runResult EXCEPT ![r] = "cannot run, not yet initialized"]
            /\ UNCHANGED <<dnsErr, zkErr, newLeader, reloadSignal, workerPc,
                           timer, launches>>
       ELSE IF Closed(done)
       THEN /\ runPc' = [runPc EXCEPT ![r] = "ended"]
            /\ runResult' = [runResult EXCEPT ![r] = "run already completed"]
            /\ UNCHANGED <<dnsErr, zkErr, newLeader, reloadSignal, workerPc,
                           timer, launches>>
       ELSE /\ runPc' = [runPc EXCEPT ![r] = "select"]
            /\ dnsErr' = [dnsErr EXCEPT ![r] = launchServer(config.DnsOn)]
            /\ newLeader' = [newLeader EXCEPT ![r] = beginLeaderWatch[1]]
            /\ zkErr' = [zkErr EXCEPT ![r] = beginLeaderWatch[2]]
            /\ reloadSignal' = [reloadSignal EXCEPT ![r] = launchReloader]
            /\ workerPc' = [workerPc EXCEPT ![r] = "wait"]
            /\ timer' = [timer EXCEPT ![r] = "armed"]
            /\ launches' = [dns |-> launches.dns
                                       + (IF launchServer(config.DnsOn).nil THEN 0 ELSE 1),
                            zk |-> launches.zk + (IF config.Zk # "" THEN 1 ELSE 0),
                            reloader |-> launches.reloader + 1,
                            chain |-> IF launchServer(config.DnsOn).nil
                                      THEN launches.chain ELSE filters]
            /\ UNCHANGED runResult
    /\ UNCHANGED <<lifeVars, reloading, errLog, sentLog, stats>>

\* case <-newLeader: tryReload()
runLeader(r) ==
    /\ runPc[r] = "select"
    /\ CanRecv(newLeader[r])
    /\ newLeader' = [newLeader EXCEPT ![r] = RecvRest(@)]
    /\ reloadSignal' = [reloadSignal EXCEPT ![r] = tryReload(@)]
    /\ stats' = [stats EXCEPT ![r].leader = @ + 1, ![r].burst = @ + 1]
    /\ UNCHANGED <<lifeVars, runPc, runResult, dnsErr, zkErr, workerPc, timer,
                   reloading, launches, errLog, sentLog>>

\* c.errHandler(tag, err) is entered.
errHandler(r, tag, err) ==
    /\ Len(errLog) < MaxLog
    /\ errLog' = Append(errLog, [by |-> r, tag |-> tag, err |-> err])
    /\ runPc' = [runPc EXCEPT ![r] = "handler"]

\* A variant that returns from run when the stream yields a nil error.
runDnsErr_ExitOnNil(r) ==
    /\ runPc[r] = "select"
    /\ CanRecv(dnsErr[r])
    /\ dnsErr' = [dnsErr EXCEPT ![r] = RecvRest(@)]
    /\ IF RecvVal(dnsErr[r]) = Nil
       THEN /\ runPc' = [runPc EXCEPT ![r] = "ended"]
            /\ CloseDone
            /\ UNCHANGED errLog
       ELSE /\ errHandler(r, "DNS server", RecvVal(dnsErr[r]))
            /\ UNCHANGED <<done, closeCalls>>
    /\ UNCHANGED <<config, heap, ready, filters, hooks, initPc, idx, started,
                   lastCall, snap, firstView, plugVars, runResult, zkErr, newLeader,
                   reloadSignal, workerPc, timer, reloading, launches, sentLog, stats>>

\* case err := <-dnsErr: c.errHandler("DNS server", err)
runDnsErr(r) ==
    /\ runPc[r] = "select"
    /\ CanRecv(dnsErr[r])
    /\ dnsErr' = [dnsErr EXCEPT ![r] = RecvRest(@)]
    /\ errHandler(r, "DNS server", RecvVal(dnsErr[r]))
    /\ UNCHANGED <<lifeVars, runResult, zkErr, newLeader, reloadSignal, workerPc,
                   timer, reloading, launches, sentLog, stats>>

\* A variant that starts the watcher again when it reports an error.
runZkErr_Restart(r) ==
    /\ runPc[r] = "select"
    /\ CanRecv(zkErr[r])
    /\ zkErr' = [zkErr EXCEPT ![r] = RecvRest(@)]
    /\ errHandler(r, "ZK watcher", RecvVal(zkErr[r]))
    /\ launches' = [launches EXCEPT !.zk = @ + 1]
    /\ UNCHANGED <<lifeVars, runResult, dnsErr, newLeader, reloadSignal, workerPc,
                   timer, reloading, sentLog, stats>>

\* case err := <-zkErr: c.errHandler("ZK watcher", err)
runZkErr(r) ==
    /\ runPc[r] = "select"
    /\ CanRecv(zkErr[r])
    /\ zkErr' = [zkErr EXCEPT ![r] = RecvRest(@)]
    /\ errHandler(r, "ZK watcher", RecvVal(zkErr[r]))
    /\ UNCHANGED <<lifeVars, runResult, dnsErr, newLeader, reloadSignal, workerPc,
                   timer, reloading, launches, sentLog, stats>>

\* A variant whose loop ends once an error was handled: run returns.
runHandled_Return(r) ==
    /\ runPc[r] = "handler"
    /\ runPc' = [runPc EXCEPT ![r] = "ended"]
    /\ CloseDone
    /\ UNCHANGED <<config, heap, ready, filters, hooks, initPc, idx, started,
                   lastCall, snap, firstView, plugVars, runResult, dnsErr, zkErr, newLeader,
                   reloadSignal, workerPc, timer, reloading, launches, errLog,
                   sentLog, stats>>

\* The handler returns and the for loop selects again.
runHandled(r) ==
    /\ runPc[r] = "handler"
    /\ runPc' = [runPc EXCEPT ![r] = "select"]
    /\ UNCHANGED <<lifeVars, runResult, dnsErr, zkErr, newLeader, reloadSignal,
                   workerPc, timer, reloading, launches, errLog, sentLog, stats>>

\* The handler panics: run unwinds and its deferred close(c.done) runs, which
\* itself panics on a channel that is already closed.
runPanicked(r) ==
    /\ runPc[r] = "handler"
    /\ runPc' = [runPc EXCEPT ![r] = "ended"]
    /\ runResult' = [runResult EXCEPT ![r] =
                        IF done THEN "close of closed channel" ELSE "error handler panic"]
    /\ CloseDone
    /\ UNCHANGED <<config, heap, ready, filters, hooks, initPc, idx, started,
                   lastCall, snap, firstView, plugVars, dnsErr, zkErr, newLeader,
                   reloadSignal, workerPc, timer, reloading, launches, errLog,
                   sentLog, stats>>

\* ----------------------------------------------------------- collaborators

NSent == Len(sentLog)

NextErr == ErrValue(NSent + 1)

\* The DNS responder sends an error on its stream.
DnsSend(r) ==
    /\ CanSend(dnsErr[r])
    /\ NSent < MaxErrs
    /\ dnsErr' = [dnsErr EXCEPT ![r] = Send(@, NextErr)]
    /\ sentLog' = Append(sentLog, [to |-> r, src |-> "dns", err |-> NextErr])
    /\ UNCHANGED <<lifeVars, runPc, runResult, zkErr, newLeader, reloadSignal,
                   workerPc, timer, reloading, launches, errLog, stats>>

\* The DNS responder closes its stream.
DnsClose(r) ==
    /\ ~dnsErr[r].nil
    /\ ~dnsErr[r].closed
    /\ dnsErr' = [dnsErr EXCEPT ![r].closed = TRUE]
    /\ UNCHANGED <<lifeVars, runPc, runResult, zkErr, newLeader, reloadSignal,
                   workerPc, timer, reloading, launches, errLog, sentLog, stats>>

\* The leader watcher sends an error on its stream.
ZkSend(r) ==
    /\ CanSend(zkErr[r])
    /\ NSent < MaxErrs
    /\ zkErr' = [zkErr EXCEPT ![r] = Send(@, NextErr)]
    /\ sentLog' = Append(sentLog, [to |-> r, src |-> "zk", err |-> NextErr])
    /\ UNCHANGED <<lifeVars, runPc, runResult, dnsErr, newLeader, reloadSignal,
                   workerPc, timer, reloading, launches, errLog, stats>>

\* The consensus watcher detects that this node became leader.
ZkLeader(r) ==
    /\ config.Zk # ""
    /\ CanSend(newLeader[r])
    /\ stats[r].leader + Len(newLeader[r].buf) < MaxLeaderEvents
    /\ newLeader' = [newLeader EXCEPT ![r] = Send(@, Unit)]
    /\ UNCHANGED <<lifeVars, runPc, runResult, dnsErr, zkErr, reloadSignal,
                   workerPc, timer, reloading, launches, errLog, sentLog, stats>>

\* A plugin sends an error on the stream its Start returned.
PluginSend(i) ==
    /\ i \in DOMAIN pluginErr
    /\ CanSend(pluginErr[i])
    /\ NSent < MaxErrs
    /\ pluginErr' = [pluginErr EXCEPT ![i] = Send(@, NextErr)]
    /\ sentLog' = Append(sentLog, [to |-> PluginId(i), src |-> "plugin", err |-> NextErr])
    /\ UNCHANGED <<coreVars, fwdPc, runPc, runResult, dnsErr, zkErr, newLeader,
                   reloadSignal, workerPc, timer, reloading, launches, errLog, stats>>

\* A plugin closes its stream.
PluginClose(i) ==
    /\ i \in DOMAIN pluginErr
    /\ ~pluginErr[i].nil
    /\ ~pluginErr[i].closed
    /\ pluginErr' = [pluginErr EXCEPT ![i].closed = TRUE]
    /\ UNCHANGED <<coreVars, fwdPc, runVars>>

\* ----------------------------------------------------------- specification

\* The lifecycle and the error fan-in: both calls of run, the collaborators'
\* error streams, the caller's handler and the reload workers.  No
\* leadership event beyond the static one, and no timer expiry.
Next ==
    \/ initialize(RunConfigs)
    \/ initializeBuiltin
    \/ initializePlugin
    \/ initializeReturn
    \/ \E r \in RunIds : run(r)
    \/ \E r \in RunIds : runLeader(r)
    \/ \E r \in RunIds : runDnsErr(r)
    \/ \E r \in RunIds : runZkErr(r)
    \/ \E r \in RunIds : runHandled(r)
    \/ \E r \in RunIds : runPanicked(r)
    \/ \E r \in RunIds : WorkerDequeue(r)
    \/ \E r \in RunIds : WorkerReloaded(r)
    \/ \E r \in RunIds : DnsSend(r)
    \/ \E r \in RunIds : DnsClose(r)
    \/ \E r \in RunIds : ZkSend(r)

Spec == Init /\ [][Next]_vars

\* The reload debouncer: both calls of run, leadership events, the timers
\* and the workers.  No collaborator sends an error.
NextReload ==
    \/ initialize(ReloadConfigs)
    \/ initializeBuiltin
    \/ initializePlugin
    \/ initializeReturn
    \/ \E r \in RunIds : run(r)
    \/ \E r \in RunIds : runLeader(r)
    \/ \E r \in RunIds : TimerFire(r)
    \/ \E r \in RunIds : WorkerDequeue(r)
    \/ \E r \in RunIds : WorkerReloaded(r)
    \/ \E r \in RunIds : ZkLeader(r)

SpecReload == Init /\ [][NextReload]_vars

\* The goroutines of run's loop and of the worker are scheduled, and
\* resolver.Reload returns.
FairSpecReload ==
    /\ SpecReload
    /\ \A r \in RunIds : WF_vars(runLeader(r))
    /\ \A r \in RunIds : WF_vars(WorkerDequeue(r))
    /\ \A r \in RunIds : WF_vars(WorkerReloaded(r))

\* The plugins launched: HTTP server and the configured ones.
PluginSlots == 1..(Len(ForwardedPlugins) + 1)

\* The plugins' error streams with their forwarders, beside one call of run
\* handling the DNS responder's errors.
NextPlugins ==
    \/ initialize(PluginConfigs)
    \/ initializeBuiltin
    \/ initializePlugin
    \/ initializeReturn
    \/ \E r \in {"run1"} : run(r)
    \/ \E r \in RunIds : runDnsErr(r)
    \/ \E r \in RunIds : runHandled(r)
    \/ \E r \in RunIds : DnsSend(r)
    \/ \E i \in PluginSlots : PluginSend(i)
    \/ \E i \in PluginSlots : PluginClose(i)
    \/ \E i \in PluginSlots : forwardErr(i)
    \/ \E i \in PluginSlots : forwardHandled(i)
    \/ \E i \in PluginSlots : forwardEnd(i)

SpecPlugins == Init /\ [][NextPlugins]_vars

\* The forwarders are scheduled and the caller's handler returns.
FairSpecPlugins ==
    /\ SpecPlugins
    /\ \A i \in PluginSlots :
          WF_vars(forwardErr(i) \/ forwardHandled(i) \/ forwardEnd(i))

\* The timers expire, the workers are scheduled and resolver.Reload returns;
\* nothing is assumed of the loop receiving leadership events.
FairSpecTimer ==
    /\ SpecReload
    /\ \A r \in RunIds : WF_vars(TimerFire(r))
    /\ \A r \in RunIds : WF_vars(WorkerDequeue(r) \/ WorkerReloaded(r))

\* The filter chain from registration to the DNS responder: AddFilter calls
\* around initialization, both calls of run, and a handler that may panic.
NextFilters ==
    \/ initialize(FilterConfigs)
    \/ initializeBuiltin
    \/ initializePlugin
    \/ initializeReturn
    \/ \E f \in Filters \cup {Nil} : AddFilter(f)
    \/ \E r \in RunIds : run(r)
    \/ \E r \in RunIds : runDnsErr(r)
    \/ \E r \in RunIds : runHandled(r)
    \/ \E r \in RunIds : runPanicked(r)
    \/ \E r \in RunIds : DnsSend(r)

SpecFilters == Init /\ [][NextFilters]_vars

\* Initialization and the registration surface.
NextInit ==
    \/ initialize(InitConfigs)
    \/ initializeBuiltin
    \/ initializePlugin
    \/ initializeReturn
    \/ Register

SpecInit == Init /\ [][NextInit]_vars

\* Initialization and the Config accessor.
NextConfig ==
    \/ initialize(SnapConfigs)
    \/ initializeBuiltin
    \/ initializePlugin
    \/ initializeReturn
    \/ ConfigCall
    \/ MutateSnapshot

SpecConfig == Init /\ [][NextConfig]_vars

\* ================================================================== claims

RegOps == {"OnPreload", "OnPostload", "AddFilter", "RegisterWS"}

PanicOf(op) == "cannot " \o op \o " after initialization has completed"

\* C1: once ready is closed, every call of OnPreload, OnPostload, AddFilter
\* and RegisterWS ends in its panic, whatever the argument (a nil filter
\* included); none completes normally.
C1_RegistrationAfterReadyPanics ==
    (lastCall.op \in RegOps /\ lastCall.atReady)
        => lastCall.result = PanicOf(lastCall.op)

\* A nil filter was passed to AddFilter after Ready, and the call panicked.
C1_Witness ==
    /\ lastCall.op = "AddFilter"
    /\ lastCall.arg = Nil
    /\ lastCall.atReady
    /\ lastCall.result # "ok"

\* A call of run that passed the gate: it reached its loop.
Entered(r) ==
    \/ runPc[r] \in {"select", "handler"}
    \/ runPc[r] = "ended" /\ runResult[r] \in {"error handler panic",
                                               "close of closed channel"}

GateFaults == {"cannot run, not yet initialized", "run already completed"}

\* C2: a call of run before ready is closed panics, and a call of run made
\* after another call passed the gate panics, whether that call has ended
\* or is still in its loop.
C2_RunMisuseAlwaysPanics ==
    [][\A r \in RunIds :
          (run(r) /\ (~ready \/ \E q \in RunIds \ {r} : Entered(q)))
              => (runPc'[r] = "ended" /\ runResult'[r] \in GateFaults)]_vars

\* C3: at most one call of resolver.Reload is executing, and at most one
\* request is pending in a reload queue.
C3_OneReloadOnePending ==
    /\ reloading <= 1
    /\ \A r \in RunIds : Len(reloadSignal[r].buf) <= 1

Pending(r) == Len(reloadSignal[r].buf)

InFlight(r) == IF workerPc[r] = "reload" THEN 1 ELSE 0

BurstCoalesces(r) ==
    /\ Pending(r) <= 1
    /\ stats[r].burst >= 1 => (Pending(r) = 1 /\ Pending(r) + InFlight(r) \in 1..2)
    /\ stats[r].burst = 0 => Pending(r) = 0
    /\ stats[r].execs + Pending(r) <= stats[r].leader + stats[r].timer

\* C4: however many tryReload calls reach a reloader before its worker next
\* dequeues, exactly one request is pending for them, beside the reload that
\* may be in flight; the worker executes that one request (the burst is
\* dequeued), and over all the executions never exceed the calls.
C4_BurstCoalesces ==
    /\ [](\A r \in RunIds : BurstCoalesces(r))
    /\ \A r \in RunIds : (stats[r].burst >= 1) ~> (stats[r].burst = 0)

\* Three calls arrived since the worker last dequeued; one request is pending.
C4_Witness ==
    \E r \in RunIds :
        /\ stats[r].burst >= 3
        /\ Pending(r) = 1

StaticLeaderOnce(r) ==
    (config.Zk = "" /\ Entered(r)) =>
        /\ stats[r].leader + Len(newLeader[r].buf) = 1
        /\ zkErr[r].nil
        /\ stats[r].timer = 0 => stats[r].execs + Pending(r) = stats[r].leader
        /\ stats[r].execs + Pending(r) <= stats[r].leader + stats[r].timer

\* C5: in static mode a run that passed the gate is given the leadership
\* event exactly once, already buffered when the loop starts and never
\* again; until a timer expires that event accounts for exactly one reload
\* request, and the loop receives the event and a reload is executed.
C5_StaticLeaderOnce ==
    /\ [](\A r \in RunIds : StaticLeaderOnce(r))
    /\ \A r \in RunIds :
          (config.Zk = "" /\ Entered(r)) ~> (stats[r].leader = 1 /\ stats[r].execs >= 1)

\* Static mode: the event was received, its reload ran, no timer expired.
C5_Witness ==
    \E r \in RunIds :
        /\ config.Zk = ""
        /\ stats[r].leader = 1
        /\ stats[r].execs = 1
        /\ stats[r].timer = 0
        /\ workerPc[r] = "wait"

\* The errors run r passed to the handler under a tag, in order.
Handled(r, tag) ==
    LET calls == SelectSeq(errLog, LAMBDA c : c.by = r /\ c.tag = tag)
    IN  [i \in 1..Len(calls) |-> calls[i].err]

\* The errors a collaborator sent on run r's stream, in order.
SentTo(r, src) ==
    LET sends == SelectSeq(sentLog, LAMBDA m : m.to = r /\ m.src = src)
    IN  [i \in 1..Len(sends) |-> sends[i].err]

\* What was sent on ch is what was handled under tag and what ch still
\* holds, in order; past that, only the nil errors of a closed stream.
Delivered(r, ch, src, tag) ==
    LET got == Handled(r, tag) \o ch.buf
        sent == SentTo(r, src)
    IN  /\ Len(sent) <= Len(got)
        /\ SubSeq(got, 1, Len(sent)) = sent
        /\ \A i \in (Len(sent) + 1)..Len(got) : got[i] = Nil /\ ch.closed

\* C6: each error the DNS responder sends on an open stream makes exactly
\* one handler call, tagged "DNS server" and carrying that error, and run
\* does not end by it: a run that ended, ended in a panic.
C6_DnsErrorHandledOnce ==
    \A r \in RunIds :
        /\ Delivered(r, dnsErr[r], "dns", "DNS server")
        /\ ~dnsErr[r].closed =>
              Len(Handled(r, "DNS server")) + Len(dnsErr[r].buf) = Len(SentTo(r, "dns"))
        /\ runPc[r] = "ended" => runResult[r] # ""

\* One error was sent and handled, the watcher sent none, the loop selects.
C6_Witness ==
    \E r \in RunIds :
        /\ Len(SentTo(r, "dns")) = 1
        /\ Handled(r, "DNS server") = SentTo(r, "dns")
        /\ SentTo(r, "zk") = <<>>
        /\ ~dnsErr[r].closed
        /\ runPc[r] = "select"

\* C7 as stated: a watcher error reaches the handler tagged "leader watcher".
C7_TaggedLeaderWatcher ==
    \A r \in RunIds : Delivered(r, zkErr[r], "zk", "leader watcher")

NEntered == Cardinality({r \in RunIds : Entered(r)})

\* C7: every error received from the watcher's stream is passed to the
\* handler tagged "ZK watcher", and the watcher is launched by the entry of
\* run only, never again for an error.
C7_TaggedZkWatcher ==
    /\ \A r \in RunIds : Delivered(r, zkErr[r], "zk", "ZK watcher")
    /\ launches.zk = (IF config.Zk # "" THEN NEntered ELSE 0)

\* A watcher error was sent and handled.
C7_Witness ==
    \E r \in RunIds :
        /\ Len(SentTo(r, "zk")) >= 1
        /\ Handled(r, "ZK watcher") = SentTo(r, "zk")

\* The plugins initialize starts from a list: the built-in one first, then
\* the entries that have a name and resolve, in the list's order.
Startable(names, http) ==
    (IF http THEN <<"HTTP server">> ELSE <<>>)
        \o SelectSeq(names, LAMBDA n : n # "" /\ Resolves(n))

\* C8: entries with an empty name or failing resolution are skipped, every
\* later entry that resolves is started, in the list's order and after the
\* built-in plugin, and ready is closed at the end.
C8_PluginsStartInOrder ==
    LET names == Deref(heap, config.Plugins)
    IN  /\ initPc = "plugins" =>
              /\ started = Startable(SubSeq(names, 1, idx - 1), config.HttpOn)
              /\ ~ready
        /\ initPc = "returned" =>
              /\ started = Startable(names, config.HttpOn)
              /\ ready

\* An empty name came first; both plugins after it were started.
C8_Witness ==
    /\ initPc = "returned"
    /\ Deref(heap, config.Plugins) = <<"", "p2", "p1">>
    /\ config.HttpOn
    /\ started = <<"HTTP server", "p2", "p1">>
    /\ ready

\* C9: whatever the holder of a snapshot writes into it, the accessor keeps
\* returning the value it returned first, with the plugin settings nil.
C9_SnapshotIsACopy ==
    firstView # <<>> =>
        /\ View(Config[1], Config[2]) = firstView[1]
        /\ Config[1].Plugins = Nil
        /\ View(config, heap).Masters = firstView[1].Masters
        /\ View(config, heap).Resolvers = firstView[1].Resolvers

\* The snapshot held was written to: it differs from what was returned.
C9_Witness ==
    /\ snap # <<>>
    /\ firstView # <<>>
    /\ View(snap[1], heap).Masters # firstView[1].Masters
    /\ snap[1].Plugins # Nil

\* C10: ready is closed once, at the end of initialize and after its plugin
\* launches; done is closed once, by a run that left its loop, never before
\* ready; no close is executed a second time.
C10_GatesCloseOnce ==
    /\ closeCalls.ready <= 1
    /\ closeCalls.done <= 1
    /\ ready <=> closeCalls.ready >= 1
    /\ done <=> closeCalls.done >= 1
    /\ ready => (initPc = "returned" /\ idx > Len(Deref(heap, config.Plugins)))
    /\ done => ready
    /\ done => \E r \in RunIds : runPc[r] = "ended" /\ Entered(r)

\* C11: each leadership event the loop receives makes one tryReload call; the
\* call queues one request when the queue is empty and nothing when a request
\* is pending, and the loop is back at its select at once: receiving the
\* event is possible whatever the worker is doing.
C11_LeaderEventOneRequest ==
    /\ [][\A r \in RunIds : runLeader(r) =>
             /\ stats'[r].burst = stats[r].burst + 1
             /\ Pending(r) = 0 => reloadSignal'[r].buf = <<Unit>>
             /\ Pending(r) >= 1 => reloadSignal'[r].buf = reloadSignal[r].buf
             /\ runPc'[r] = "select"
             /\ workerPc'[r] = workerPc[r]]_vars
    /\ [](\A r \in RunIds :
             (runPc[r] = "select" /\ CanRecv(newLeader[r])) => ENABLED runLeader(r))

\* A reload is executing, two leadership events were received, and the calls
\* made since the worker dequeued left one request pending.
C11_Witness ==
    \E r \in RunIds :
        /\ workerPc[r] = "reload"
        /\ stats[r].leader >= 2
        /\ stats[r].burst >= 2
        /\ Pending(r) = 1

\* The handler invocations in progress: those of the run loops and those of
\* the plugins' forwarders.
InHandler ==
    Cardinality({r \in RunIds : runPc[r] = "handler"})
        + Cardinality({i \in DOMAIN fwdPc : fwdPc[i] = "handler"})

\* C12: at most one invocation of the error handler is in progress, over the
\* run loop's calls for the DNS responder and the leader watcher and the
\* forwarders' calls for every launched plugin.
C12_OneHandlerAtATime ==
    InHandler <= 1

\* The errors the forwarder of plugin i passed to the handler, in order.
PHandled(i) ==
    LET calls == SelectSeq(errLog, LAMBDA c : c.by = PluginId(i))
    IN  [k \in 1..Len(calls) |-> calls[k].err]

Forwarded(i) ==
    /\ \A k \in DOMAIN errLog : errLog[k].by = PluginId(i) => errLog[k].tag = started[i]
    /\ PHandled(i) \o pluginErr[i].buf = SentTo(PluginId(i), "plugin")
    /\ pluginErr[i].nil => (fwdPc[i] = "none" /\ PHandled(i) = <<>>)
    /\ fwdPc[i] = "stopped" => (pluginErr[i].closed /\ pluginErr[i].buf = <<>>)

\* C14: what a plugin sent on its stream is what its forwarder passed to the
\* handler, tagged with that plugin's name and in the order sent, followed by
\* what the stream still holds; an error held by the stream is eventually
\* received, so it reaches the handler; the forwarder stops once the stream is
\* closed and drained; a plugin without a stream makes no handler call.
C14_PluginErrorsForwarded ==
    /\ [](\A i \in DOMAIN pluginErr : Forwarded(i))
    /\ \A i \in PluginSlots :
          (i \in DOMAIN pluginErr /\ pluginErr[i].buf # <<>>)
              ~> (i \in DOMAIN pluginErr /\ pluginErr[i].buf = <<>>)
    /\ \A i \in PluginSlots :
          (i \in DOMAIN pluginErr /\ pluginErr[i].closed)
              ~> (i \in DOMAIN fwdPc /\ fwdPc[i] = "stopped")

\* Two plugins with different names each had an error forwarded, one of them
\* closed its stream and its forwarder stopped; a third returned no stream.
C14_Witness ==
    /\ started = <<"HTTP server", "p1", "p2">>
    /\ Len(PHandled(1)) = 1
    /\ Len(PHandled(2)) = 1
    /\ fwdPc[1] = "stopped"
    /\ pluginErr[3].nil

\* When an error was sent, as its place among all the errors sent.
SentAt(e) == CHOOSE k \in DOMAIN sentLog : sentLog[k].err = e

\* C13: the loop handles the event that became available first: it takes an
\* error from one stream only if no older error waits on the other stream,
\* and, in static mode, where the leadership event is available from the
\* moment the loop starts, only if that event was received.
C13_ArrivalOrder ==
    [][\A r \in RunIds :
          /\ (runDnsErr(r) /\ dnsErr[r].buf # <<>>) =>
                /\ ~(config.Zk = "" /\ newLeader[r].buf # <<>>)
                /\ zkErr[r].buf # <<>> =>
                      SentAt(Head(dnsErr[r].buf)) < SentAt(Head(zkErr[r].buf))
          /\ (runZkErr(r) /\ zkErr[r].buf # <<>>) =>
                (dnsErr[r].buf # <<>> =>
                      SentAt(Head(zkErr[r].buf)) < SentAt(Head(dnsErr[r].buf)))]_vars

\* C15: the timer of a launched reloader is armed, and armed again by the
\* worker after every reload; as long as timers may still expire, a worker
\* that waits for a request, at launch or after a reload, executes a reload
\* again, whether or not the loop ever receives a leadership event.
C15_TimerKeepsReloading ==
    /\ [][\A r \in RunIds :
             /\ run(r) /\ runPc'[r] = "select" => timer'[r] = "armed"
             /\ WorkerReloaded(r) => timer'[r] = "armed"]_vars
    /\ \A r \in RunIds :
          (workerPc[r] = "wait" /\ TimerFires < MaxTimerFires)
              ~> (workerPc[r] = "reload" \/ TimerFires >= MaxTimerFires)

\* Two reloads were executed, both for expiries of the timer: the loop has
\* received no leadership event.
C15_Witness ==
    \E r \in RunIds :
        /\ stats[r].execs = 2
        /\ stats[r].timer = 2
        /\ stats[r].leader = 0
        /\ workerPc[r] = "wait"
        /\ timer[r] = "armed"

\* A task faulted: the caller's handler panicked inside a run loop.
Faulted ==
    \E r \in RunIds : runResult[r] \in {"error handler panic", "close of closed channel"}

\* C16: as long as no task faults, no call of run that passed the gate has
\* returned and done is open, whatever was routed to the handler: a call of
\* run that ended was refused at the gate.
C16_NoNormalExit ==
    ~Faulted =>
        /\ ~done
        /\ closeCalls.done = 0
        /\ \A r \in RunIds : runPc[r] = "ended" => runResult[r] \in GateFaults

\* An error and the nil error of a closed stream were routed to the handler;
\* the loop selects again and done is open.
C16_Witness ==
    \E r \in RunIds :
        /\ Len(Handled(r, "DNS server")) >= 2
        /\ Handled(r, "DNS server")[1] # Nil
        /\ Handled(r, "DNS server")[2] = Nil
        /\ runPc[r] = "select"
        /\ ~Faulted
        /\ ~done

\* C18: the handler calls tagged "DNS server" are at most as many as the
\* errors the DNS responder sent, and likewise for the leader watcher and its
\* tag, also when the responder closed its stream.
C18_HandledAtMostSent ==
    \A r \in RunIds :
        /\ Len(Handled(r, "DNS server")) <= Len(SentTo(r, "dns"))
        /\ Len(Handled(r, "ZK watcher")) <= Len(SentTo(r, "zk"))

Tagged(tag) == {k \in DOMAIN errLog : errLog[k].tag = tag}

\* C19: with the DNS toggle off the responder is not launched, its stream is
\* nil and no handler call is tagged "DNS server"; in static mode the watcher
\* is not launched, its error stream is nil and no handler call carries the
\* watcher's tag; a loop at its select can take whatever a remaining source
\* holds.
C19_OffMeansSilent ==
    /\ ~config.DnsOn =>
          /\ launches.dns = 0
          /\ \A r \in RunIds : dnsErr[r].nil
          /\ Tagged("DNS server") = {}
    /\ config.Zk = "" =>
          /\ launches.zk = 0
          /\ \A r \in RunIds : zkErr[r].nil
          /\ Tagged("ZK watcher") = {}
    /\ \A r \in RunIds : runPc[r] = "select" =>
          /\ CanRecv(newLeader[r]) => ENABLED runLeader(r)
          /\ (CanRecv(dnsErr[r]) /\ Len(errLog) < MaxLog) => ENABLED runDnsErr(r)
          /\ (CanRecv(zkErr[r]) /\ Len(errLog) < MaxLog) => ENABLED runZkErr(r)

\* The DNS toggle is off; a watcher error was sent and handled.
C19_Witness ==
    /\ ~config.DnsOn
    /\ config.Zk # ""
    /\ \E r \in RunIds :
          /\ Entered(r)
          /\ dnsErr[r].nil
          /\ Len(Handled(r, "ZK watcher")) >= 1

\* C17: a call of AddFilter before Ready with a filter appends it at the end
\* of the chain, a nil filter or a call after Ready leaves the chain as it
\* is, nothing else changes the chain, and the chain LaunchDNS is given by a
\* run that passed the gate is the chain registered.
C17_FilterChainInOrder ==
    /\ [][/\ \A f \in Filters \cup {Nil} :
               AddFilter(f) =>
                   filters' = (IF ~ready /\ f # Nil THEN Append(filters, f) ELSE filters)
          /\ (~ \E f \in Filters \cup {Nil} : AddFilter(f)) => filters' = filters
          /\ ready => filters' = filters]_vars
    /\ [](\A r \in RunIds : (Entered(r) /\ config.DnsOn) => launches.chain = filters)

\* Two filters were registered, f2 first; run handed that chain to the DNS
\* responder, and a later AddFilter call was refused.
C17_Witness ==
    /\ launches.dns >= 1
    /\ launches.chain = <<"f2", "f1">>
    /\ lastCall.op = "AddFilter"
    /\ lastCall.atReady
    /\ lastCall.result = PanicOf("AddFilter")

\* C20: an AddFilter call refused after Ready leaves the chain as it is; a
\* call of run refused before Ready or because done is closed executes no
\* close and launches nothing.
C20_FaultChangesNothing ==
    [][/\ \A f \in Filters \cup {Nil} :
            (AddFilter(f) /\ ready) =>
                /\ lastCall'.result = PanicOf("AddFilter")
                /\ filters' = filters
       /\ \A r \in RunIds :
            (run(r) /\ (~ready \/ done)) =>
                /\ runPc'[r] = "ended"
                /\ runResult'[r] \in GateFaults
                /\ UNCHANGED <<done, closeCalls, launches, dnsErr, zkErr, newLeader,
                               reloadSignal, workerPc, timer, filters>>]_vars

\* The second call of run was refused because done was closed, after one
\* execution of close and one launch; an AddFilter call was refused too, the
\* chain still holding its filter.
C20_Witness ==
    /\ runResult["run2"] = "run already completed"
    /\ done
    /\ closeCalls.done = 1
    /\ launches.reloader = 1
    /\ lastCall.op = "AddFilter"
    /\ lastCall.result = PanicOf("AddFilter")
    /\ filters = <<"f1">>

====
